---------------------------- MODULE Spec2Model ----------------------------
(***************************************************************************)
(* Model of separa_livro.py: a PDF is split into one file per bookmark.    *)
(*                                                                         *)
(* Strings are sequences of one-character strings, so that substring,      *)
(* replacement and truncation are computed character by character.        *)
(* An outline entry is a leaf [kind |-> "leaf", title, page] (a PyPDF2     *)
(* Destination; page is what get_destination_page_number returns for it)  *)
(* or a nested list [kind |-> "list", items].                              *)
(***************************************************************************)
EXTENDS Integers, Sequences, FiniteSets, TLC

VARIABLES
    env,              \* what the run is given: pdf_ok, output, key, depth, mock
    outlines,         \* pdf_reader.outline
    dirs,             \* directories that exist
    files,            \* path -> document, for the files that exist
    bookmarks,        \* the list get_bookmarks appends to
    i,                \* position of the loop of separate_by_bookmark (1-based)
    stdout,           \* the lines printed so far
    pc,               \* where the run is
    input_string,     \* sanitize_file_name: its argument
    replacement,      \* sanitize_file_name: its argument
    max_length,       \* sanitize_file_name: its argument (None or a number)
    sanitized_string, \* sanitize_file_name: its result
    output_filename   \* the file name lines 73-74 build from a title

vars == <<env, outlines, dirs, files, bookmarks, i, stdout, pc,
          input_string, replacement, max_length, sanitized_string, output_filename>>

runVars == <<env, outlines, dirs, files, bookmarks, i, stdout>>
sanVars == <<input_string, replacement, max_length, sanitized_string, output_filename>>

----------------------------------------------------------------------------
(* Bounds *)

MaxNodes == 5      \* nodes (leaves and lists) of an outline given to get_bookmarks alone
MaxDepth == 2      \* largest depth argument
MaxRunNodes == 3   \* nodes of the outline of a whole run
NumPages == 2      \* len(pdf_reader.pages)
MaxLen == 2        \* length of the strings given to sanitize_file_name

None == <<>>          \* max_length is None, or <<n>> for the number n

----------------------------------------------------------------------------
(* Strings *)

Space == " "
Underscore == "_"

\* the titles of the modelled outlines: "a b" and "a/b" sanitize to one name
TitleAB == <<"a", " ", "b">>
TitleASlashB == <<"a", "/", "b">>
TitleB == <<"B">>
Titles == {TitleAB, TitleASlashB, TitleB}

\* the keys of the modelled runs: none, a substring of one title, the wrong case
Keys == {<<>>, <<"/", "b">>, <<"B">>}

PdfSuffix == <<".", "p", "d", "f">>

----------------------------------------------------------------------------
(* Outlines *)

Leaf(t, p) == [kind |-> "leaf", title |-> t, page |-> p]
List(xs) == [kind |-> "list", items |-> xs]
IsList(outline) == outline.kind = "list"

RECURSIVE Forests(_, _), NodesOfSize(_, _)
\* the outline lists with exactly n nodes over the given leaves
Forests(leaves, n) ==
    IF n = 0 THEN {<<>>}
    ELSE UNION { { <<x>> \o r : x \in NodesOfSize(leaves, k), r \in Forests(leaves, n - k) }
                 : k \in 1 .. n }
NodesOfSize(leaves, k) ==
    (IF k = 1 THEN leaves ELSE {}) \cup { List(f) : f \in Forests(leaves, k - 1) }

OutlinesUpTo(leaves, n) == UNION { Forests(leaves, k) : k \in 0 .. n }

----------------------------------------------------------------------------
(* get_bookmarks *)

\* line 22 recursing with depth - 1, as line 20 does
RECURSIVE get_bookmarks_decrementing(_, _)
get_bookmarks_decrementing(outs, depth) ==
    IF outs = <<>> THEN <<>>
    ELSE LET outline == Head(outs)
             appended ==
                 IF IsList(outline)
                 THEN IF depth > 0 THEN get_bookmarks_decrementing(outline.items, depth - 1)
                      ELSE IF depth = -1
                           THEN get_bookmarks_decrementing(outline.items, depth - 1)
                      ELSE <<>>
                 ELSE IF depth < 1 THEN << <<outline.title, outline.page>> >>
                      ELSE <<>>
         IN  appended \o get_bookmarks_decrementing(Tail(outs), depth)

\* line 19 as depth >= 0
RECURSIVE get_bookmarks_entering_at_0(_, _)
get_bookmarks_entering_at_0(outs, depth) ==
    IF outs = <<>> THEN <<>>
    ELSE LET outline == Head(outs)
             appended ==
                 IF IsList(outline)
                 THEN IF depth >= 0 THEN get_bookmarks_entering_at_0(outline.items, depth - 1)
                      ELSE IF depth = -1
                           THEN get_bookmarks_entering_at_0(outline.items, depth)
                      ELSE <<>>
                 ELSE IF depth < 1 THEN << <<outline.title, outline.page>> >>
                      ELSE <<>>
         IN  appended \o get_bookmarks_entering_at_0(Tail(outs), depth)

\* without the test of line 24
RECURSIVE get_bookmarks_every_level(_, _)
get_bookmarks_every_level(outs, depth) ==
    IF outs = <<>> THEN <<>>
    ELSE LET outline == Head(outs)
             appended ==
                 IF IsList(outline)
                 THEN IF depth > 0 THEN get_bookmarks_every_level(outline.items, depth - 1)
                      ELSE IF depth = -1
                           THEN get_bookmarks_every_level(outline.items, depth)
                      ELSE <<>>
                 ELSE << <<outline.title, outline.page>> >>
         IN  appended \o get_bookmarks_every_level(Tail(outs), depth)

\* line 20 recursing with depth, as line 22 does
RECURSIVE get_bookmarks_not_counting(_, _)
get_bookmarks_not_counting(outs, depth) ==
    IF outs = <<>> THEN <<>>
    ELSE LET outline == Head(outs)
             appended ==
                 IF IsList(outline)
                 THEN IF depth > 0 THEN get_bookmarks_not_counting(outline.items, depth)
                      ELSE IF depth = -1
                           THEN get_bookmarks_not_counting(outline.items, depth)
                      ELSE <<>>
                 ELSE IF depth < 1 THEN << <<outline.title, outline.page>> >>
                      ELSE <<>>
         IN  appended \o get_bookmarks_not_counting(Tail(outs), depth)

RECURSIVE get_bookmarks(_, _)
get_bookmarks(outs, depth) ==
    IF outs = <<>> THEN <<>>
    ELSE LET outline == Head(outs)
             appended ==
                 IF IsList(outline)
                 THEN IF depth > 0 THEN get_bookmarks(outline.items, depth - 1)
                      ELSE IF depth = -1 THEN get_bookmarks(outline.items, depth)
                      ELSE <<>>
                 ELSE IF depth < 1 THEN << <<outline.title, outline.page>> >>
                      ELSE <<>>
         IN  appended \o get_bookmarks(Tail(outs), depth)

----------------------------------------------------------------------------
(* get_bookmarks on its own: any outline, any depth *)

ExtractLeaves == { Leaf(t, 0) : t \in {TitleAB, TitleB} }

NoEnv == [pdf_ok |-> TRUE, output |-> "", key |-> <<>>, depth |-> -1, mock |-> TRUE]

InitExtract ==
    /\ outlines \in OutlinesUpTo(ExtractLeaves, MaxNodes)
    /\ \E d \in -1 .. MaxDepth : env = [NoEnv EXCEPT !.depth = d]
    /\ dirs = {}
    /\ files = <<>>
    /\ bookmarks = <<>>
    /\ i = 0
    /\ stdout = <<>>
    /\ pc = "call"
    /\ input_string = <<>>
    /\ replacement = <<Underscore>>
    /\ max_length = None
    /\ sanitized_string = <<>>
    /\ output_filename = <<>>

GetBookmarks ==
    /\ pc = "call"
    /\ bookmarks' = bookmarks \o get_bookmarks(outlines, env.depth)
    /\ pc' = "return"
    /\ UNCHANGED <<env, outlines, dirs, files, i, stdout>>
    /\ UNCHANGED sanVars

NextExtract == GetBookmarks

SpecExtract == InitExtract /\ [][NextExtract]_vars

----------------------------------------------------------------------------
(* sanitize_file_name *)

InvalidChars == {"\\", "/", ":", "*", "?", "\"", "<", ">", "|"}

\* re.sub of a character class, and str.replace of one character: each
\* character of s that is in chars becomes repl
RECURSIVE ReplaceChars(_, _, _)
ReplaceChars(s, chars, repl) ==
    IF s = <<>> THEN <<>>
    ELSE (IF Head(s) \in chars THEN repl ELSE <<Head(s)>>)
         \o ReplaceChars(Tail(s), chars, repl)

\* the slice s[:n] of Python, n of either sign
Slice(s, n) ==
    LET m == IF n >= 0 THEN n ELSE Len(s) + n
    IN  IF m <= 0 THEN <<>> ELSE IF m >= Len(s) THEN s ELSE SubSeq(s, 1, m)

\* without the pass of line 102
sanitize_file_name_keeping_spaces(input, repl, maxlen) ==
    LET subbed == ReplaceChars(input, InvalidChars, repl)
    IN  IF maxlen # None /\ Len(subbed) > maxlen[1]
        THEN Slice(subbed, maxlen[1])
        ELSE subbed

sanitize_file_name(input, repl, maxlen) ==
    LET subbed == ReplaceChars(input, InvalidChars, repl)
        spaced == ReplaceChars(subbed, {Space}, repl)
    IN  IF maxlen # None /\ Len(spaced) > maxlen[1]
        THEN Slice(spaced, maxlen[1])
        ELSE spaced

\* lines 73-74: the file name of a title
OutputFilename(title) ==
    sanitize_file_name(ReplaceChars(title, {Space}, <<Underscore>>) \o PdfSuffix,
                       <<Underscore>>, None)

----------------------------------------------------------------------------
(* sanitize_file_name on its own: any string, any max_length *)

Alphabet == InvalidChars \cup {Space, Underscore, "a", "."}
Strings == UNION { [1 .. n -> Alphabet] : n \in 0 .. MaxLen }
ExampleTitle == <<"A", "/", "B", ":", " ", "C", "?">>
Replacements == { <<Underscore>>, <<Space>>, <<>> }
MaxLengths == {None} \cup { <<n>> : n \in -1 .. MaxLen + 1 }

InitSanitize ==
    /\ input_string \in Strings \cup {ExampleTitle}
    /\ replacement \in Replacements
    /\ max_length \in MaxLengths
    /\ sanitized_string = <<>>
    /\ output_filename = <<>>
    /\ pc = "call"
    /\ env = NoEnv
    /\ outlines = <<>>
    /\ dirs = {}
    /\ files = <<>>
    /\ bookmarks = <<>>
    /\ i = 0
    /\ stdout = <<>>

Sanitize ==
    /\ pc = "call"
    /\ sanitized_string' = sanitize_file_name(input_string, replacement, max_length)
    /\ pc' = "sanitized"
    /\ UNCHANGED <<input_string, replacement, max_length, output_filename>>
    /\ UNCHANGED runVars

\* lines 73-74 with input_string as the title
BuildFilename ==
    /\ pc = "sanitized"
    /\ output_filename' = OutputFilename(input_string)
    /\ pc' = "named"
    /\ UNCHANGED <<input_string, replacement, max_length, sanitized_string>>
    /\ UNCHANGED runVars

NextSanitize == Sanitize \/ BuildFilename

SpecSanitize == InitSanitize /\ [][NextSanitize]_vars

Chars(s) == { s[k] : k \in 1 .. Len(s) }

\* C8: with the default replacement "_" and any max_length the result of
\* sanitize_file_name holds no reserved character and no space, and so does the
\* file name built from a title; "A/B: C?" gives "A_B__C_.pdf".
C8_NoReservedCharacter ==
    /\ (pc \in {"sanitized", "named"} /\ replacement = <<Underscore>>) =>
           Chars(sanitized_string) \cap (InvalidChars \cup {Space}) = {}
    /\ pc = "named" =>
           /\ Chars(output_filename) \cap (InvalidChars \cup {Space}) = {}
           /\ input_string = ExampleTitle =>
                  output_filename = <<"A", "_", "B", "_", "_", "C", "_", ".", "p", "d", "f">>

C8_Witness ==
    /\ pc = "named"
    /\ replacement = <<Underscore>>
    /\ max_length = <<3>>
    /\ input_string = ExampleTitle
    /\ sanitized_string = <<"A", "_", "B">>
    /\ output_filename = <<"A", "_", "B", "_", "_", "C", "_", ".", "p", "d", "f">>

----------------------------------------------------------------------------
(* separate_by_bookmark *)

\* lines 54-56, for the bookmark at position k (1-based)
end_page(k) ==
    IF k < Len(bookmarks) THEN bookmarks[k + 1][2] ELSE NumPages

Lower(c) == IF c = "A" THEN "a" ELSE IF c = "B" THEN "b" ELSE c
LowerCase(s) == [k \in 1 .. Len(s) |-> Lower(s[k])]

\* key.lower() in title.lower()
KeyInTitle_ignoring_case(key, title) ==
    \E s \in 0 .. Len(title) - Len(key) :
        SubSeq(LowerCase(title), s + 1, s + Len(key)) = LowerCase(key)

\* key in title
KeyInTitle(key, title) ==
    \E s \in 0 .. Len(title) - Len(key) : SubSeq(title, s + 1, s + Len(key)) = key

\* line 61
Selected(key, title) == key = <<>> \/ KeyInTitle(key, title)

\* range(a, b)
range(a, b) == [k \in 1 .. (IF b > a THEN b - a ELSE 0) |-> a + k - 1]

\* lines 68-71: the pages added to the writer, each named by its index in
\* pdf_reader.pages
WriterPages(k) == range(bookmarks[k][2], end_page(k))

\* lines 73-76: the path the file of a title is written to
OutputPath(title) == <<env.output, OutputFilename(title)>>

Document(pages) == [state |-> "written", pages |-> pages]
\* a file that was there before the run
OldDocument == [state |-> "old", pages |-> <<>>]
\* what is left of a file opened with "wb" when pdf_writer.write raises
PartialDocuments(pages) ==
    { [state |-> "partial", pages |-> SubSeq(pages, 1, n)] : n \in 0 .. Len(pages) }

CreatedLine(path) == [line |-> "Created", path |-> path]
MockLines(title, start, end) ==
    [line |-> "Title", title |-> title, start |-> start, end |-> end]
MessageLine(text) == [line |-> text]

----------------------------------------------------------------------------
(* A run of main *)

\* the bookmarks of a run point at the first or at the last page
Leaves == { Leaf(t, p) : t \in Titles, p \in {0, NumPages - 1} }
\* --depth: the default, and one level down
RunDepths == {-1, 1}

\* the file system a run starts in, with the --output it is given:
\* dir is whether the output directory exists, old whether a file of the name
\* of the modelled titles is already in the directory the run writes to
Environments ==
    { [pdf_ok |-> TRUE, output |-> o, dir |-> d, old |-> f] :
        o \in {"", "out"}, d, f \in BOOLEAN }
    \cup { [pdf_ok |-> FALSE, output |-> "", dir |-> FALSE, old |-> FALSE] }

Init ==
    /\ \E e \in { x \in Environments : (x.output = "" => ~x.dir /\ ~x.old)
                                       /\ (x.output # "" /\ ~x.dir => ~x.old) } :
         /\ \E k \in Keys, d \in RunDepths, m \in BOOLEAN :
              env = [pdf_ok |-> e.pdf_ok, output |-> e.output,
                     key |-> k, depth |-> d, mock |-> m]
         /\ dirs = IF e.dir THEN {e.output} ELSE {}
         /\ files = IF e.old
                    THEN <<e.output, OutputFilename(TitleAB)>> :> OldDocument
                    ELSE <<>>
    /\ outlines \in OutlinesUpTo(Leaves, MaxRunNodes)
    /\ bookmarks = <<>>
    /\ i = 0
    /\ stdout = <<>>
    /\ pc = "main"
    /\ input_string = <<>>
    /\ replacement = <<Underscore>>
    /\ max_length = None
    /\ sanitized_string = <<>>
    /\ output_filename = <<>>

\* lines 127-129
InvalidPdfPath ==
    /\ pc = "main"
    /\ ~env.pdf_ok
    /\ stdout' = Append(stdout, MessageLine("Invalid PDF path"))
    /\ pc' = "returned"
    /\ UNCHANGED <<env, outlines, dirs, files, bookmarks, i>>
    /\ UNCHANGED sanVars

\* lines 131-136 when os.makedirs raises OSError
InvalidOutputPath ==
    /\ pc = "main"
    /\ env.pdf_ok
    /\ env.output \notin dirs /\ env.output # ""
    /\ stdout' = Append(stdout, MessageLine("Invalid output path"))
    /\ pc' = "returned"
    /\ UNCHANGED <<env, outlines, dirs, files, bookmarks, i>>
    /\ UNCHANGED sanVars

\* lines 127-142 up to the call of separate_by_bookmark, os.makedirs succeeding
StartRun ==
    /\ pc = "main"
    /\ env.pdf_ok
    /\ dirs' = IF env.output \notin dirs /\ env.output # ""
               THEN dirs \cup {env.output}
               ELSE dirs
    /\ bookmarks' = bookmarks \o get_bookmarks(outlines, env.depth)
    /\ i' = 1
    /\ pc' = "loop"
    /\ UNCHANGED <<env, outlines, files, stdout>>
    /\ UNCHANGED sanVars

InLoop == pc = "loop" /\ i <= Len(bookmarks)

\* lines 53-61, the test of line 61 failing
SkipBookmark ==
    /\ InLoop
    /\ ~Selected(env.key, bookmarks[i][1])
    /\ i' = i + 1
    /\ UNCHANGED <<env, outlines, dirs, files, bookmarks, stdout, pc>>
    /\ UNCHANGED sanVars

\* lines 62-66
MockBookmark ==
    /\ InLoop
    /\ Selected(env.key, bookmarks[i][1])
    /\ env.mock
    /\ stdout' = Append(stdout, MockLines(bookmarks[i][1], bookmarks[i][2], end_page(i)))
    /\ i' = i + 1
    /\ UNCHANGED <<env, outlines, dirs, files, bookmarks, pc>>
    /\ UNCHANGED sanVars

\* line 78 opening with "xb": a file that exists is left alone
WriteBookmark_keeping_existing ==
    /\ InLoop
    /\ Selected(env.key, bookmarks[i][1])
    /\ ~env.mock
    /\ LET path == OutputPath(bookmarks[i][1])
       IN  /\ files' = IF path \in DOMAIN files
                       THEN files
                       ELSE (path :> Document(WriterPages(i))) @@ files
           /\ stdout' = Append(stdout, CreatedLine(path))
    /\ i' = i + 1
    /\ UNCHANGED <<env, outlines, dirs, bookmarks, pc>>
    /\ UNCHANGED sanVars

\* lines 68-71 as range(start_page, end_page + 1)
WriteBookmark_one_page_more ==
    /\ InLoop
    /\ Selected(env.key, bookmarks[i][1])
    /\ ~env.mock
    /\ LET path == OutputPath(bookmarks[i][1])
       IN  /\ files' = (path :> Document(range(bookmarks[i][2], end_page(i) + 1))) @@ files
           /\ stdout' = Append(stdout, CreatedLine(path))
    /\ i' = i + 1
    /\ UNCHANGED <<env, outlines, dirs, bookmarks, pc>>
    /\ UNCHANGED sanVars

\* lines 67-80, the write succeeding
WriteBookmark ==
    /\ InLoop
    /\ Selected(env.key, bookmarks[i][1])
    /\ ~env.mock
    /\ LET path == OutputPath(bookmarks[i][1])
       IN  /\ files' = (path :> Document(WriterPages(i))) @@ files
           /\ stdout' = Append(stdout, CreatedLine(path))
    /\ i' = i + 1
    /\ UNCHANGED <<env, outlines, dirs, bookmarks, pc>>
    /\ UNCHANGED sanVars

\* lines 67-78, open raising: the exception leaves separate_by_bookmark and main
OpenFails ==
    /\ InLoop
    /\ Selected(env.key, bookmarks[i][1])
    /\ ~env.mock
    /\ pc' = "crashed"
    /\ UNCHANGED <<env, outlines, dirs, files, bookmarks, i, stdout>>
    /\ UNCHANGED sanVars

\* lines 78-79 with the exception of pdf_writer.write caught and the loop going on
WriteFails_carrying_on ==
    /\ InLoop
    /\ Selected(env.key, bookmarks[i][1])
    /\ ~env.mock
    /\ LET path == OutputPath(bookmarks[i][1])
       IN  \E doc \in PartialDocuments(WriterPages(i)) :
               files' = (path :> doc) @@ files
    /\ i' = i + 1
    /\ UNCHANGED <<env, outlines, dirs, bookmarks, stdout, pc>>
    /\ UNCHANGED sanVars

\* lines 67-79, open succeeding (the file is created or truncated) and
\* pdf_writer.write raising: the exception leaves separate_by_bookmark and main
WriteFails ==
    /\ InLoop
    /\ Selected(env.key, bookmarks[i][1])
    /\ ~env.mock
    /\ LET path == OutputPath(bookmarks[i][1])
       IN  \E doc \in PartialDocuments(WriterPages(i)) :
               files' = (path :> doc) @@ files
    /\ pc' = "crashed"
    /\ UNCHANGED <<env, outlines, dirs, bookmarks, i, stdout>>
    /\ UNCHANGED sanVars

\* line 53, the list exhausted: separate_by_bookmark and main return
Finish ==
    /\ pc = "loop"
    /\ i > Len(bookmarks)
    /\ pc' = "done"
    /\ UNCHANGED <<env, outlines, dirs, files, bookmarks, i, stdout>>
    /\ UNCHANGED sanVars

Next ==
    \/ InvalidPdfPath
    \/ InvalidOutputPath
    \/ StartRun
    \/ SkipBookmark
    \/ MockBookmark
    \/ WriteBookmark
    \/ OpenFails
    \/ WriteFails
    \/ Finish

Spec == Init /\ [][Next]_vars

----------------------------------------------------------------------------
(* The outline as a tree: a leaf is named by its path, the positions from  *)
(* the top-level list down to it; its nesting level is Len(path) - 1.      *)

RECURSIVE LeafPaths(_)
LeafPaths(outs) ==
    UNION { IF IsList(outs[k])
            THEN { <<k>> \o p : p \in LeafPaths(outs[k].items) }
            ELSE { <<k>> }
            : k \in 1 .. Len(outs) }

RECURSIVE NodeAt(_, _)
NodeAt(outs, p) ==
    IF Len(p) = 1 THEN outs[p[1]] ELSE NodeAt(outs[p[1]].items, Tail(p))

Level(p) == Len(p) - 1

\* p comes before q in the outline (depth-first, left to right)
Before(p, q) ==
    \E k \in 1 .. Len(p) :
        /\ k <= Len(q)
        /\ p[k] < q[k]
        /\ \A j \in 1 .. k - 1 : p[j] = q[j]

BookmarkOf(outs, p) == <<NodeAt(outs, p).title, NodeAt(outs, p).page>>

\* the leaves whose level is in levels, as bookmarks, in outline order
LeavesAtLevels(outs, levels) ==
    LET LP == { p \in LeafPaths(outs) : Level(p) \in levels }
        nth(k) == CHOOSE p \in LP : Cardinality({ q \in LP : Before(q, p) }) = k - 1
    IN  [k \in 1 .. Cardinality(LP) |-> BookmarkOf(outs, nth(k))]

Occurrences(seq, x) == Cardinality({ k \in 1 .. Len(seq) : seq[k] = x })

Returned == pc = "return"

\* C1: with depth = -1 the bookmarks are the leaves of every nesting level, one
\* bookmark per leaf, in depth-first left-to-right order.
C1_AllLeavesInOrder ==
    (Returned /\ env.depth = -1) =>
        /\ Len(bookmarks) = Cardinality(LeafPaths(outlines))
        /\ bookmarks = LeavesAtLevels(outlines, 0 .. MaxNodes)

C1_Witness ==
    /\ Returned /\ env.depth = -1
    /\ \E p, q \in LeafPaths(outlines) : Level(p) = 0 /\ Level(q) = 2 /\ Before(q, p)
    /\ Len(bookmarks) = 3

\* C2: with depth = 0 the bookmarks are the leaves that are elements of the
\* top-level list, in order; nested lists contribute nothing.
C2_TopLevelOnly ==
    (Returned /\ env.depth = 0) =>
        LET top == SelectSeq(outlines, LAMBDA o : ~IsList(o))
        IN  bookmarks = [k \in 1 .. Len(top) |-> <<top[k].title, top[k].page>>]

C2_Witness ==
    /\ Returned /\ env.depth = 0
    /\ \E p, q \in LeafPaths(outlines) : Level(p) = 0 /\ Level(q) > 0
    /\ Len(bookmarks) = 1

\* C3 as stated: with depth d > 0 the bookmarks are the leaves of the levels 0 .. d.
C3_LevelsUpToDepth ==
    (Returned /\ env.depth > 0) =>
        bookmarks = LeavesAtLevels(outlines, 0 .. env.depth)

\* C3 as amended: with depth d > 0 each leaf of level d is in the bookmarks, once
\* per occurrence in the outline, and no leaf of a shallower or deeper level is.
C3_OnlyLevelDepth ==
    (Returned /\ env.depth > 0) =>
        \A b \in { BookmarkOf(outlines, p) : p \in LeafPaths(outlines) }
                 \cup { bookmarks[k] : k \in 1 .. Len(bookmarks) } :
            Occurrences(bookmarks, b) =
                Cardinality({ p \in LeafPaths(outlines) :
                                Level(p) = env.depth /\ BookmarkOf(outlines, p) = b })

C3_Witness ==
    /\ Returned /\ env.depth = 1
    /\ \E p, q, r \in LeafPaths(outlines) : Level(p) = 0 /\ Level(q) = 1 /\ Level(r) = 2
    /\ Len(bookmarks) = 1

\* the value of the depth parameter in the call that visits the node at path p,
\* when the calls above it are made with depth - 1
CounterAt(p) == env.depth - Level(p)

\* C10: with depth d > 0 a leaf is appended exactly when every list above it is
\* entered (counter above 0 there) and the counter is 0 where the leaf is visited;
\* the bookmarks are the leaves of level d in outline order.
C10_ExactlyLevelDepth ==
    (Returned /\ env.depth > 0) =>
        LET reached == { p \in LeafPaths(outlines) :
                           /\ \A l \in 0 .. Level(p) - 1 : env.depth - l > 0
                           /\ CounterAt(p) <= 0 }
        IN  /\ \A p \in reached : CounterAt(p) = 0
            /\ bookmarks = LeavesAtLevels(outlines, { env.depth })
            /\ Len(bookmarks) = Cardinality(reached)

C10_Witness ==
    /\ Returned /\ env.depth = 2
    /\ \E p, q \in LeafPaths(outlines) : Level(p) = 2 /\ Level(q) = 1
    /\ Len(bookmarks) = 2

----------------------------------------------------------------------------
(* The sections of a run, stated from the bookmark list *)

\* key occurs in title, character for character
Contains(key, title) ==
    \E offset \in 0 .. Len(title) :
        /\ offset + Len(key) <= Len(title)
        /\ \A j \in 1 .. Len(key) : title[offset + j] = key[j]

Title(k) == bookmarks[k][1]
SectionStart(k) == bookmarks[k][2]
SectionEnd(k) == IF k = Len(bookmarks) THEN NumPages ELSE bookmarks[k + 1][2]
Processed(k) == env.key = <<>> \/ Contains(env.key, Title(k))
PathOf(k) == <<env.output, OutputFilename(Title(k))>>

\* what the run has printed once the first n bookmarks are behind it
RECURSIVE Report(_)
Report(n) ==
    IF n = 0 THEN <<>>
    ELSE Report(n - 1) \o
         (IF ~Processed(n) THEN <<>>
          ELSE IF env.mock
               THEN << [line |-> "Title", title |-> Title(n),
                        start |-> SectionStart(n), end |-> SectionEnd(n)] >>
               ELSE << [line |-> "Created", path |-> PathOf(n)] >>)

\* C4: bookmark k is processed iff the key is empty or occurs in its title, in
\* list order, with start its own start page and end the start page of bookmark
\* k + 1 of the whole list, or the page count for the last one.
C4_SectionsFromUnfilteredList ==
    /\ pc \in {"loop", "done", "crashed"} => stdout = Report(i - 1)
    /\ (pc \in {"loop", "done"} /\ ~env.mock /\ i > 1 /\ Processed(i - 1)) =>
           /\ PathOf(i - 1) \in DOMAIN files
           /\ files[PathOf(i - 1)] =
                  Document(range(SectionStart(i - 1), SectionEnd(i - 1)))

C4_Witness ==
    /\ pc = "done"
    /\ env.mock
    /\ env.key # <<>>
    /\ Len(bookmarks) = 3
    /\ Processed(1) /\ ~Processed(2) /\ Processed(3)
    /\ Len(stdout) = 2
    /\ stdout[1].end = bookmarks[2][2]
    /\ stdout[2].end = NumPages

\* C5 as stated: in a run with the mock flag no step changes the directories or
\* the files, and a run that reaches the end has printed only title/start/end blocks.
C5_DryRunLeavesFilesystem ==
    [][env.mock =>
          /\ dirs' = dirs
          /\ files' = files
          /\ pc' = "done" => \A k \in 1 .. Len(stdout') : stdout'[k].line = "Title"]_vars

\* C6: the document written for a processed bookmark holds the source pages
\* start, ..., end - 1 in that order and nothing else; with start >= end it holds
\* no page, the write is not refused and the loop goes on to the next bookmark.
C6_ExactPageRange ==
    /\ (pc \in {"loop", "done"} /\ ~env.mock /\ i > 1 /\ Processed(i - 1)) =>
           LET start == SectionStart(i - 1)
               end == SectionEnd(i - 1)
               doc == files[PathOf(i - 1)]
           IN  /\ doc.state = "written"
               /\ Len(doc.pages) = (IF end > start THEN end - start ELSE 0)
               /\ \A j \in 1 .. Len(doc.pages) : doc.pages[j] = start + j - 1
               /\ start >= end => doc.pages = <<>>
    /\ (InLoop /\ ~env.mock /\ Processed(i) /\ SectionStart(i) >= SectionEnd(i)) =>
           ENABLED WriteBookmark

C6_Witness ==
    /\ pc = "loop"
    /\ ~env.mock
    /\ i = 2 /\ Len(bookmarks) >= 2
    /\ Processed(1) /\ Processed(2)
    /\ SectionStart(1) > SectionEnd(1)
    /\ files[PathOf(1)] = Document(<<>>)
    /\ stdout = << [line |-> "Created", path |-> PathOf(1)] >>

\* the last processed bookmark written to path p
LastAt(p) ==
    CHOOSE k \in 1 .. Len(bookmarks) :
        /\ Processed(k) /\ PathOf(k) = p
        /\ \A m \in k + 1 .. Len(bookmarks) : ~(Processed(m) /\ PathOf(m) = p)

\* C7: after a materialize run each written name holds the page range of the
\* last processed bookmark of that name, so titles that sanitize to one name
\* leave one file and fewer files than "Created" lines.
C7_LaterWriteOverwrites ==
    (pc = "done" /\ ~env.mock) =>
        LET written == { PathOf(k) : k \in { m \in 1 .. Len(bookmarks) : Processed(m) } }
        IN  /\ \A p \in written :
                   /\ p \in DOMAIN files
                   /\ files[p] = Document(range(SectionStart(LastAt(p)),
                                                SectionEnd(LastAt(p))))
            /\ \A p \in DOMAIN files \ written : files[p] = OldDocument
            /\ Cardinality(written) <= Len(stdout)

C7_Witness ==
    /\ pc = "done"
    /\ ~env.mock
    /\ Len(bookmarks) = 2
    /\ Processed(1) /\ Processed(2)
    /\ Title(1) # Title(2)
    /\ PathOf(1) = PathOf(2)
    /\ SectionStart(1) = 0 /\ SectionStart(2) = 1
    /\ Cardinality(DOMAIN files) = 1
    /\ files[PathOf(1)] = Document(range(1, NumPages))
    /\ Len(stdout) = 2

\* a step of the loop on a processed bookmark, in materialize mode, that prints
\* no "Created" line: the write failed
FailedWrite == InLoop /\ ~env.mock /\ Processed(i) /\ stdout' = stdout

\* C9 as stated: a failed write ends the run where it is, nothing follows it, and
\* the files of the processed bookmarks before it are as they were written.
C9_FailureKeepsEarlierFiles ==
    /\ [][pc = "crashed" => FALSE]_vars
    /\ [][FailedWrite =>
            /\ pc' = "crashed" /\ i' = i
            /\ \A k \in 1 .. i - 1 :
                   Processed(k) => /\ PathOf(k) \in DOMAIN files'
                                   /\ files'[PathOf(k)] = files[PathOf(k)]]_vars

\* C9 as amended: a failed write ends the run where it is, nothing follows it, and
\* every file but the one at the failing bookmark's own path is as it was.
C9_FailureStopsRun ==
    /\ [][pc = "crashed" => FALSE]_vars
    /\ [][FailedWrite =>
            /\ pc' = "crashed" /\ i' = i
            /\ DOMAIN files \subseteq DOMAIN files'
            /\ DOMAIN files' \subseteq DOMAIN files \cup {PathOf(i)}
            /\ \A p \in DOMAIN files : p # PathOf(i) => files'[p] = files[p]
            /\ dirs' = dirs]_vars

C9_Witness ==
    /\ pc = "crashed"
    /\ ~env.mock
    /\ i = 2 /\ Len(bookmarks) = 3
    /\ Processed(1) /\ Processed(2) /\ Processed(3)
    /\ PathOf(1) # PathOf(2) /\ PathOf(3) = PathOf(1)
    /\ SectionStart(1) = 0 /\ SectionStart(2) = 1 /\ SectionStart(3) = 1
    /\ stdout = << [line |-> "Created", path |-> PathOf(1)] >>
    /\ files[PathOf(1)] = Document(<<0>>)
    /\ PathOf(2) \in DOMAIN files /\ files[PathOf(2)].state = "partial"

=============================================================================
